---- MODULE Spec2Model ----
(***************************************************************************)
(* P2000-NFTY: the WebSocket feed client (internal/websocket/client.go),   *)
(* the ntfy delivery client (internal/notifier/ntfy.go), the capcode       *)
(* filter (internal/filter/capcode.go), the capcode lookup                 *)
(* (internal/capcode/lookup.go) and the message handler of main.go.        *)
(*                                                                         *)
(* Durations are in whole seconds.  A goroutine is a program counter; one  *)
(* action is one step of a goroutine between two accesses of shared state  *)
(* (the c.conn field, the status channel, the socket, the context).        *)
(* A panic in any goroutine ends the process: every action is guarded by   *)
(* ~panicked.                                                              *)
(***************************************************************************)
EXTENDS Integers, Sequences, FiniteSets, TLC

\* ---------------------------------------------------------------- bounds
MaxSock == 2      \* successful dials in one run
MaxFrames == 3    \* frames read from the sockets in one run
MaxFailRun == 7   \* completed backoff waits in one run of failures
MaxCaps == 2      \* capcodes in one message
MaxMsgs == 2      \* messages handed to the handler in one run
MaxRows == 2      \* records in the capcode CSV file
MaxAge == 6       \* minutes counted since the last message

\* ------------------------------------------------- constants of client.go
initialBackoff == 1
maxBackoff == 30
backoffMultiplier == 2

\* --------------------------------------------------- constants of ntfy.go
maxRetries == 3
retryBackoff == 2

VARIABLES
    \* ---- websocket.Client and its goroutines
    ctx,          \* the context given to Connect: "active", "canceled", "deadline"
    handedAtCancel, \* frames handed to the handler when the context became done
    pc,           \* position of the goroutine running Client.Connect
    cerr,         \* err of Connect: what connectAndListen returned
    connectRet,   \* value returned by Connect ("none" while running)
    rsock,        \* socket the pending ReadMessage was called on
    cur,          \* the frame held by the read loop
    conn,         \* c.conn: 0 is nil, k > 0 is the k-th socket dialed
    backoff,      \* c.backoff
    statusChan,   \* c.statusChan, capacity 1
    doneClosed,   \* c.done has been closed
    hasHandler,   \* c.msgHandler != nil
    nsock,        \* sockets dialed so far
    sockOpen,     \* sockets not yet closed
    closeFrames,  \* close frames written, per socket
    sockCloses,   \* conn.Close() calls, per socket
    readLog,      \* frames read so far, in order: <<[id, ok]>>
    handlerLog,   \* frame ids passed to msgHandler, in order
    failRun,      \* completed backoff waits since NewClient or the last dial success
    prevRun,      \* failRun at the moment of the last dial success
    pinger,       \* keepalive goroutine per socket: "none", "run", "write", "exit"
    tickerOn,     \* pingTicker of the socket's connectAndListen not yet stopped
    tickBuf,      \* a tick is buffered in pingTicker.C
    pingLog,      \* <<pinger, socket>> of every ping frame written
    cpc,          \* position of the goroutine calling Client.Close
    wsConnected,  \* Application.wsConnected, set by monitorConnectionStatus
    panicked,     \* a goroutine panicked
    \* ---- one Notifier.Send call
    sctx,         \* the context given to Send
    spc,          \* position inside Send
    attempt,      \* the loop variable of Send
    reqLog,       \* outcome of every sendRequest call, in order
    lastErr,      \* lastErr of Send
    sendRet,      \* value returned by Send
    urlOk,        \* http.NewRequestWithContext accepts the server/topic URL
    username,     \* n.username
    password,     \* n.password
    token,        \* n.token
    authLog,      \* authentication carried by every request handed to httpClient.Do
    waitLog,      \* duration of every completed wait between attempts, in order
    msgType,      \* msg.Type of the message given to Send
    msgFunction,  \* msg.Signal.Function of the message given to Send
    hdrLog,       \* Priority and Tags headers of every request handed to httpClient.Do
    \* ---- filter.CapcodeFilter
    forwardAll,   \* f.forwardAll
    capList,      \* the capcodes given to NewCapcodeFilter
    allowedCaps,  \* keys of f.allowedCaps
    \* ---- Application.handleMessage and the metrics
    hpc,          \* position of the handler call: "idle" when none runs
    msgCaps,      \* msg.Capcodes of the message in hand
    fwd,          \* what ShouldForward returned for it: "true", "false"; "none" before
    sendLog,      \* the messages given to Notifier.Send: the n-th handled is n
    MessagesReceived,     \* p2000_messages_received_total
    MessagesFiltered,     \* p2000_messages_filtered_total
    NotificationsSent,         \* p2000_notifications_sent_total
    NotificationsFailed,       \* p2000_notifications_failed_total
    \* ---- capcode.Lookup
    rows,         \* the records of the CSV file given to NewLookup, in order
    data,         \* l.data: a function from keys to CapcodeInfo
    query,        \* the capcode given to the last Get call
    got,          \* what it returned
    \* ---- Notifier.formatMessage
    hasLookup,    \* n.capcodeLookup != nil
    fmsgCaps,     \* msg.Capcodes of the message being formatted
    body,         \* the lines formatMessage wrote (<<>> before the call)
    infos,        \* what GetMultiple returned (<<NoInfo>> before the call)
    \* ---- Application health check
    lastMsgAge,   \* time.Since(app.lastMsg) in minutes, capped at MaxAge
    health        \* status written by the running health request (0: none)

gCfg == <<hasHandler>>
gSock == <<nsock, sockOpen, closeFrames, sockCloses>>
gLog == <<cur, readLog, handlerLog>>
gPing == <<pinger, tickerOn, tickBuf, pingLog>>
gCloser == <<cpc, doneClosed>>
gChan == <<statusChan, wsConnected>>
gBack == <<backoff, failRun, prevRun>>
gRet == <<cerr, connectRet, rsock>>

clientVars == <<ctx, handedAtCancel, pc, conn, panicked, gCfg, gSock, gLog, gPing, gCloser, gChan,
                gBack, gRet>>

gNtfy == <<username, password, token>>

gMsg == <<msgType, msgFunction>>

sendVars == <<sctx, spc, attempt, reqLog, lastErr, sendRet, urlOk, gNtfy, gMsg,
              hdrLog, authLog, waitLog>>

gFilter == <<forwardAll, capList, allowedCaps>>
gHandler == <<hpc, msgCaps, fwd, sendLog>>
gMetrics == <<MessagesReceived, MessagesFiltered, NotificationsSent, NotificationsFailed>>

gLookup == <<rows, data, query, got>>

gFormat == <<hasLookup, fmsgCaps, body, infos>>

gHealth == <<lastMsgAge, health>>

appVars == <<gFilter, gHandler, gMetrics, gLookup, gFormat, gHealth>>

vars == <<clientVars, sendVars, appVars>>

Socks == 1..MaxSock

\* ctx.Err()
CtxErr(c) == IF c = "canceled" THEN "context.Canceled"
             ELSE IF c = "deadline" THEN "context.DeadlineExceeded"
             ELSE "nil"

\* increaseBackoff without the cap at maxBackoff
increaseBackoffUncapped(b) == b * backoffMultiplier

\* increaseBackoff
increaseBackoff(b) ==
    IF b * backoffMultiplier > maxBackoff THEN maxBackoff ELSE b * backoffMultiplier

\* resetBackoff that leaves c.backoff as it is
resetBackoffKeep == backoff

\* resetBackoff
resetBackoff == initialBackoff

\* notifyStatus that replaces a value still waiting in the channel
notifyStatusOverwrite(ch, connected) == <<connected>>

\* notifyStatus: a send on the one-slot channel, skipped when it is full
notifyStatus(ch, connected) == IF Len(ch) < 1 THEN Append(ch, connected) ELSE ch

\* NewClient: no socket, backoff at its initial value, an empty one-slot
\* status channel, c.done open.  msgHandler may be nil.
ClientInit ==
    /\ ctx = "active"
    /\ handedAtCancel = 0
    /\ pc = "loop"
    /\ cerr = "nil"
    /\ connectRet = "none"
    /\ rsock = 0
    /\ cur = [id |-> 0, ok |-> FALSE]
    /\ conn = 0
    /\ backoff = initialBackoff
    /\ statusChan = <<>>
    /\ doneClosed = FALSE
    /\ hasHandler \in BOOLEAN
    /\ nsock = 0
    /\ sockOpen = {}
    /\ closeFrames = [k \in Socks |-> 0]
    /\ sockCloses = [k \in Socks |-> 0]
    /\ readLog = <<>>
    /\ handlerLog = <<>>
    /\ failRun = 0
    /\ prevRun = 0
    /\ pinger = [k \in Socks |-> "none"]
    /\ tickerOn = [k \in Socks |-> FALSE]
    /\ tickBuf = [k \in Socks |-> FALSE]
    /\ pingLog = {}
    /\ cpc = "idle"
    /\ wsConnected = FALSE
    /\ panicked = FALSE

\* A nil-pointer dereference or a close of a closed channel: the process dies.
Panic ==
    /\ panicked' = TRUE
    /\ UNCHANGED <<sendVars, appVars, ctx, handedAtCancel, pc, conn, gCfg, gSock, gLog, gPing, gCloser, gChan, gBack, gRet>>

\* ------------------------------------------------------------ the context
\* cancel() of the context given to Connect
Cancel ==
    /\ ~panicked /\ ctx = "active"
    /\ ctx' = "canceled"
    /\ handedAtCancel' = Len(handlerLog)
    /\ UNCHANGED <<sendVars, appVars, pc, conn, panicked, gCfg, gSock, gLog, gPing, gCloser, gChan, gBack, gRet>>

\* the deadline of the context given to Connect passes
Timeout ==
    /\ ~panicked /\ ctx = "active"
    /\ ctx' = "deadline"
    /\ handedAtCancel' = Len(handlerLog)
    /\ UNCHANGED <<sendVars, appVars, pc, conn, panicked, gCfg, gSock, gLog, gPing, gCloser, gChan, gBack, gRet>>

\* --------------------------------------------------------- Client.Connect
\* Connect calling connectAndListen before looking at the context
ConnectLoopDialFirst ==
    /\ ~panicked /\ pc = "loop"
    /\ pc' = "dial" /\ UNCHANGED connectRet
    /\ UNCHANGED <<sendVars, appVars, ctx, handedAtCancel, conn, panicked, gCfg, gSock, gLog, gPing, gCloser, gChan, gBack,
                   cerr, rsock>>

\* Connect, the outer select: return ctx.Err() when the context is done,
\* otherwise call connectAndListen.
ConnectLoop ==
    /\ ~panicked /\ pc = "loop"
    /\ IF ctx # "active"
         THEN pc' = "returned" /\ connectRet' = CtxErr(ctx)
         ELSE pc' = "dial" /\ UNCHANGED connectRet
    /\ UNCHANGED <<sendVars, appVars, ctx, handedAtCancel, conn, panicked, gCfg, gSock, gLog, gPing, gCloser, gChan, gBack,
                   cerr, rsock>>

\* Connect returning the dial error instead of retrying
DialFailFatal ==
    /\ ~panicked /\ pc = "dial"
    /\ cerr' = "dial"
    /\ pc' = "returned"
    /\ connectRet' = "dial failed"
    /\ UNCHANGED <<sendVars, appVars, ctx, handedAtCancel, conn, panicked, gCfg, gSock, gLog, gPing, gCloser, gChan,
                   gBack, rsock>>

\* connectAndListen: DialContext fails (always possible; certain once the
\* context is done) and connectAndListen returns "dial failed".
DialFail ==
    /\ ~panicked /\ pc = "dial"
    /\ cerr' = "dial"
    /\ pc' = "notifyFalse"
    /\ UNCHANGED <<sendVars, appVars, ctx, handedAtCancel, conn, panicked, gCfg, gSock, gLog, gPing, gCloser, gChan, gBack,
                   connectRet, rsock>>

\* a dial made with context.Background() instead of ctx: it can succeed
\* after ctx is done
DialOkBackground ==
    /\ ~panicked /\ pc = "dial"
    /\ nsock < MaxSock
    /\ nsock' = nsock + 1
    /\ sockOpen' = sockOpen \cup {nsock + 1}
    /\ conn' = nsock + 1
    /\ pc' = "established"
    /\ UNCHANGED <<sendVars, appVars, ctx, handedAtCancel, panicked, gCfg, closeFrames, sockCloses, gLog, gPing, gCloser,
                   gChan, gBack, gRet>>

\* connectAndListen: DialContext succeeds and c.conn = conn.
DialOk ==
    /\ ~panicked /\ pc = "dial"
    /\ ctx = "active"
    /\ nsock < MaxSock
    /\ nsock' = nsock + 1
    /\ sockOpen' = sockOpen \cup {nsock + 1}
    /\ conn' = nsock + 1
    /\ pc' = "established"
    /\ UNCHANGED <<sendVars, appVars, ctx, handedAtCancel, panicked, gCfg, closeFrames, sockCloses, gLog, gPing, gCloser,
                   gChan, gBack, gRet>>

\* connectAndListen going on to the read loop without c.notifyStatus(true)
EstablishedNoReport ==
    /\ ~panicked /\ pc = "established"
    /\ backoff' = resetBackoff
    /\ failRun' = 0
    /\ prevRun' = failRun
    /\ pc' = "setup"
    /\ UNCHANGED <<sendVars, appVars, ctx, handedAtCancel, conn, panicked, gCfg, gSock, gLog, gPing, gCloser, gChan,
                   gRet>>

\* connectAndListen: c.resetBackoff(); c.notifyStatus(true)
Established ==
    /\ ~panicked /\ pc = "established"
    /\ backoff' = resetBackoff
    /\ failRun' = 0
    /\ prevRun' = failRun
    /\ statusChan' = notifyStatus(statusChan, TRUE)
    /\ pc' = "setup"
    /\ UNCHANGED <<sendVars, appVars, ctx, handedAtCancel, conn, panicked, gCfg, gSock, gLog, gPing, gCloser, wsConnected,
                   gRet>>

\* connectAndListen: c.conn.SetReadDeadline, c.conn.SetPongHandler, the ping
\* ticker and the keepalive goroutine.  nsock is the socket of this call.
Setup ==
    /\ ~panicked /\ pc = "setup"
    /\ IF conn = 0
         THEN Panic
         ELSE /\ pinger' = [pinger EXCEPT ![nsock] = "run"]
              /\ tickerOn' = [tickerOn EXCEPT ![nsock] = TRUE]
              /\ pc' = "readSelect"
              /\ UNCHANGED <<sendVars, appVars, ctx, handedAtCancel, conn, panicked, gCfg, gSock, gLog, tickBuf, pingLog,
                             gCloser, gChan, gBack, gRet>>

\* a read loop that reads on without looking at the context
ReadSelectNoCancel ==
    /\ ~panicked /\ pc = "readSelect"
    /\ pc' = "read" /\ UNCHANGED cerr
    /\ UNCHANGED <<sendVars, appVars, ctx, handedAtCancel, conn, panicked, gCfg, gSock, gLog, gPing, gCloser, gChan, gBack,
                   connectRet, rsock>>

\* the read loop's select: close and return ctx.Err() when the context is
\* done, otherwise read.
ReadSelect ==
    /\ ~panicked /\ pc = "readSelect"
    /\ IF ctx # "active"
         THEN pc' = "cc1" /\ cerr' = "ctx"
         ELSE pc' = "read" /\ UNCHANGED cerr
    /\ UNCHANGED <<sendVars, appVars, ctx, handedAtCancel, conn, panicked, gCfg, gSock, gLog, gPing, gCloser, gChan, gBack,
                   connectRet, rsock>>

\* c.conn.ReadMessage() is called: the receiver c.conn is evaluated.
ReadCall ==
    /\ ~panicked /\ pc = "read"
    /\ IF conn = 0
         THEN Panic
         ELSE /\ rsock' = conn
              /\ pc' = "reading"
              /\ UNCHANGED <<sendVars, appVars, ctx, handedAtCancel, conn, panicked, gCfg, gSock, gLog, gPing, gCloser,
                             gChan, gBack, cerr, connectRet>>

\* ReadMessage returns an error (network failure, read deadline, socket
\* closed): closeConnection and return "read failed".
ReadFail ==
    /\ ~panicked /\ pc = "reading"
    /\ cerr' = "read"
    /\ rsock' = 0
    /\ pc' = "cc1"
    /\ UNCHANGED <<sendVars, appVars, ctx, handedAtCancel, conn, panicked, gCfg, gSock, gLog, gPing, gCloser, gChan, gBack,
                   connectRet>>

\* ReadMessage returns the next frame of the socket; its payload decodes
\* as a P2000Message (ok) or does not.
ReadFrame ==
    /\ ~panicked /\ pc = "reading"
    /\ rsock \in sockOpen
    /\ Len(readLog) < MaxFrames
    /\ \E ok \in BOOLEAN :
         /\ cur' = [id |-> Len(readLog) + 1, ok |-> ok]
         /\ readLog' = Append(readLog, cur')
    /\ rsock' = 0
    /\ pc' = "extend"
    /\ UNCHANGED <<sendVars, appVars, ctx, handedAtCancel, conn, panicked, gCfg, gSock, handlerLog, gPing, gCloser, gChan,
                   gBack, cerr, connectRet>>

\* c.conn.SetReadDeadline after a successful read
ExtendDeadline ==
    /\ ~panicked /\ pc = "extend"
    /\ IF conn = 0
         THEN Panic
         ELSE /\ pc' = "handle"
              /\ UNCHANGED <<sendVars, appVars, ctx, handedAtCancel, conn, panicked, gCfg, gSock, gLog, gPing, gCloser,
                             gChan, gBack, gRet>>

\* handleMessage calling the handler whether or not the payload decoded
handleMessageAlways ==
    /\ ~panicked /\ pc = "handle"
    /\ IF hasHandler
         THEN pc' = "inHandler" /\ handlerLog' = Append(handlerLog, cur.id)
         ELSE pc' = "readSelect" /\ UNCHANGED handlerLog
    /\ UNCHANGED <<sendVars, appVars, ctx, handedAtCancel, conn, panicked, gCfg, gSock, cur, readLog, gPing, gCloser,
                   gChan, gBack, gRet>>

\* a decode failure treated like a read failure: the connection is torn down
handleMessageFatal ==
    /\ ~panicked /\ pc = "handle"
    /\ IF ~cur.ok
         THEN pc' = "cc1" /\ cerr' = "read" /\ UNCHANGED handlerLog
         ELSE IF hasHandler
           THEN pc' = "inHandler" /\ handlerLog' = Append(handlerLog, cur.id)
                /\ UNCHANGED cerr
           ELSE pc' = "readSelect" /\ UNCHANGED <<handlerLog, cerr>>
    /\ UNCHANGED <<sendVars, appVars, ctx, handedAtCancel, conn, panicked, gCfg, gSock, cur, readLog, gPing, gCloser,
                   gChan, gBack, connectRet, rsock>>

\* handleMessage: json.Unmarshal; on failure log and return; otherwise call
\* c.msgHandler(msg) if it is not nil.
handleMessage ==
    /\ ~panicked /\ pc = "handle"
    /\ IF ~cur.ok
         THEN pc' = "readSelect" /\ UNCHANGED handlerLog
         ELSE IF hasHandler
           THEN pc' = "inHandler" /\ handlerLog' = Append(handlerLog, cur.id)
           ELSE pc' = "readSelect" /\ UNCHANGED handlerLog
    /\ UNCHANGED <<sendVars, appVars, ctx, handedAtCancel, conn, panicked, gCfg, gSock, cur, readLog, gPing, gCloser, gChan,
                   gBack, gRet>>

\* c.msgHandler(msg) returns to handleMessage, which returns to the read loop.
HandlerReturn ==
    /\ ~panicked /\ pc = "inHandler"
    /\ pc' = "readSelect"
    /\ UNCHANGED <<sendVars, appVars, ctx, handedAtCancel, conn, panicked, gCfg, gSock, gLog, gPing, gCloser, gChan, gBack,
                   gRet>>

\* ------------------------------- closeConnection, on the Connect goroutine
\* return from connectAndListen after the read loop: the deferred
\* pingTicker.Stop() runs, and Connect goes on to notifyStatus(false).
ListenReturn ==
    /\ tickerOn' = [tickerOn EXCEPT ![nsock] = FALSE]
    /\ pc' = "notifyFalse"

\* closeConnection: if c.conn != nil
ConnCloseCheck ==
    /\ ~panicked /\ pc = "cc1"
    /\ IF conn = 0
         THEN ListenReturn
         ELSE pc' = "cc2" /\ UNCHANGED tickerOn
    /\ UNCHANGED <<sendVars, appVars, ctx, handedAtCancel, conn, panicked, gCfg, gSock, gLog, pinger, tickBuf, pingLog,
                   gCloser, gChan, gBack, gRet>>

\* closeConnection: c.conn.WriteMessage(CloseMessage, ...)
ConnCloseFrame ==
    /\ ~panicked /\ pc = "cc2"
    /\ IF conn = 0
         THEN Panic
         ELSE /\ closeFrames' = [closeFrames EXCEPT ![conn] = @ + 1]
              /\ pc' = "cc3"
              /\ UNCHANGED <<sendVars, appVars, ctx, handedAtCancel, conn, panicked, gCfg, nsock, sockOpen, sockCloses,
                             gLog, gPing, gCloser, gChan, gBack, gRet>>

\* closeConnection: c.conn.Close()
ConnCloseSocket ==
    /\ ~panicked /\ pc = "cc3"
    /\ IF conn = 0
         THEN Panic
         ELSE /\ sockOpen' = sockOpen \ {conn}
              /\ sockCloses' = [sockCloses EXCEPT ![conn] = @ + 1]
              /\ pc' = "cc4"
              /\ UNCHANGED <<sendVars, appVars, ctx, handedAtCancel, conn, panicked, gCfg, nsock, closeFrames, gLog,
                             gPing, gCloser, gChan, gBack, gRet>>

\* closeConnection: c.conn = nil, then connectAndListen returns its error
ConnCloseNil ==
    /\ ~panicked /\ pc = "cc4"
    /\ conn' = 0
    /\ ListenReturn
    /\ UNCHANGED <<sendVars, appVars, ctx, handedAtCancel, panicked, gCfg, gSock, gLog, pinger, tickBuf, pingLog, gCloser,
                   gChan, gBack, gRet>>

\* ------------------------------------------------ Connect, after a failure
\* Connect: c.notifyStatus(false)
NotifyDisconnected ==
    /\ ~panicked /\ pc = "notifyFalse"
    /\ statusChan' = notifyStatus(statusChan, FALSE)
    /\ pc' = "wait"
    /\ UNCHANGED <<sendVars, appVars, ctx, handedAtCancel, conn, panicked, gCfg, gSock, gLog, gPing, gCloser, wsConnected,
                   gBack, gRet>>

\* Connect: <-time.After(c.backoff), then c.increaseBackoff().  The timer
\* runs at least initialBackoff, so it is the case taken only while the
\* context is not done.
WaitElapsed ==
    /\ ~panicked /\ pc = "wait"
    /\ ctx = "active"
    /\ failRun < MaxFailRun
    /\ backoff' = increaseBackoff(backoff)
    /\ failRun' = failRun + 1
    /\ UNCHANGED prevRun
    /\ cerr' = "nil"
    /\ pc' = "loop"
    /\ UNCHANGED <<sendVars, appVars, ctx, handedAtCancel, conn, panicked, gCfg, gSock, gLog, gPing, gCloser, gChan,
                   connectRet, rsock>>

\* an interrupted wait that still calls c.increaseBackoff()
WaitCancelledIncrease ==
    /\ ~panicked /\ pc = "wait"
    /\ ctx # "active"
    /\ pc' = "returned"
    /\ connectRet' = CtxErr(ctx)
    /\ backoff' = increaseBackoff(backoff)
    /\ UNCHANGED <<sendVars, appVars, ctx, handedAtCancel, conn, panicked, gCfg, gSock, gLog, gPing, gCloser, gChan,
                   failRun, prevRun, cerr, rsock>>

\* Connect: <-ctx.Done() during the wait: return ctx.Err()
WaitCancelled ==
    /\ ~panicked /\ pc = "wait"
    /\ ctx # "active"
    /\ pc' = "returned"
    /\ connectRet' = CtxErr(ctx)
    /\ UNCHANGED <<sendVars, appVars, ctx, handedAtCancel, conn, panicked, gCfg, gSock, gLog, gPing, gCloser, gChan, gBack,
                   cerr, rsock>>

\* ------------------------------------------ Client.Close, on another task
\* Close: close(c.done).  A close of a closed channel panics: the caller
\* stops at "closeOfClosed" and the process dies.
CloseCall ==
    /\ ~panicked /\ cpc = "idle"
    /\ IF doneClosed
         THEN /\ panicked' = TRUE
              /\ cpc' = "closeOfClosed"
              /\ UNCHANGED <<sendVars, appVars, ctx, handedAtCancel, pc, conn, gCfg, gSock, gLog, gPing, doneClosed,
                             gChan, gBack, gRet>>
         ELSE /\ doneClosed' = TRUE
              /\ cpc' = "cc1"
              /\ UNCHANGED <<sendVars, appVars, ctx, handedAtCancel, pc, conn, panicked, gCfg, gSock, gLog, gPing, gChan,
                             gBack, gRet>>

\* closeConnection: if c.conn != nil
CloserCheck ==
    /\ ~panicked /\ cpc = "cc1"
    /\ cpc' = IF conn = 0 THEN "idle" ELSE "cc2"
    /\ UNCHANGED <<sendVars, appVars, ctx, handedAtCancel, pc, conn, panicked, gCfg, gSock, gLog, gPing, doneClosed, gChan,
                   gBack, gRet>>

\* closeConnection: c.conn.WriteMessage(CloseMessage, ...)
CloserFrame ==
    /\ ~panicked /\ cpc = "cc2"
    /\ IF conn = 0
         THEN Panic
         ELSE /\ closeFrames' = [closeFrames EXCEPT ![conn] = @ + 1]
              /\ cpc' = "cc3"
              /\ UNCHANGED <<sendVars, appVars, ctx, handedAtCancel, pc, conn, panicked, gCfg, nsock, sockOpen, sockCloses,
                             gLog, gPing, doneClosed, gChan, gBack, gRet>>

\* closeConnection: c.conn.Close()
CloserSocket ==
    /\ ~panicked /\ cpc = "cc3"
    /\ IF conn = 0
         THEN Panic
         ELSE /\ sockOpen' = sockOpen \ {conn}
              /\ sockCloses' = [sockCloses EXCEPT ![conn] = @ + 1]
              /\ cpc' = "cc4"
              /\ UNCHANGED <<sendVars, appVars, ctx, handedAtCancel, pc, conn, panicked, gCfg, nsock, closeFrames, gLog,
                             gPing, doneClosed, gChan, gBack, gRet>>

\* closeConnection: c.conn = nil, and Close returns
CloserNil ==
    /\ ~panicked /\ cpc = "cc4"
    /\ conn' = 0
    /\ cpc' = "idle"
    /\ UNCHANGED <<sendVars, appVars, ctx, handedAtCancel, pc, panicked, gCfg, gSock, gLog, gPing, doneClosed, gChan, gBack,
                   gRet>>

\* ------------------------------------------------- the keepalive goroutine
\* pingTicker fires: a tick is put in pingTicker.C unless one is waiting
TickerFire(k) ==
    /\ ~panicked /\ tickerOn[k] /\ ~tickBuf[k]
    /\ tickBuf' = [tickBuf EXCEPT ![k] = TRUE]
    /\ UNCHANGED <<sendVars, appVars, ctx, handedAtCancel, pc, conn, panicked, gCfg, gSock, gLog, pinger, tickerOn, pingLog,
                   gCloser, gChan, gBack, gRet>>

\* case <-pingTicker.C: c.conn.SetWriteDeadline(...)
PingTick(k) ==
    /\ ~panicked /\ pinger[k] = "run" /\ tickBuf[k]
    /\ IF conn = 0
         THEN Panic
         ELSE /\ tickBuf' = [tickBuf EXCEPT ![k] = FALSE]
              /\ pinger' = [pinger EXCEPT ![k] = "write"]
              /\ UNCHANGED <<sendVars, appVars, ctx, handedAtCancel, pc, conn, panicked, gCfg, gSock, gLog, tickerOn,
                             pingLog, gCloser, gChan, gBack, gRet>>

\* c.conn.WriteMessage(PingMessage, nil): the goroutine returns on an error
PingWrite(k) ==
    /\ ~panicked /\ pinger[k] = "write"
    /\ IF conn = 0
         THEN Panic
         ELSE /\ \/ /\ conn \in sockOpen
                    /\ pingLog' = pingLog \cup {<<k, conn>>}
                    /\ pinger' = [pinger EXCEPT ![k] = "run"]
                 \/ /\ pinger' = [pinger EXCEPT ![k] = "exit"]
                    /\ UNCHANGED pingLog
              /\ UNCHANGED <<sendVars, appVars, ctx, handedAtCancel, pc, conn, panicked, gCfg, gSock, gLog, tickerOn,
                             tickBuf, gCloser, gChan, gBack, gRet>>

\* case <-ctx.Done(): return
PingExit(k) ==
    /\ ~panicked /\ pinger[k] = "run"
    /\ ctx # "active"
    /\ pinger' = [pinger EXCEPT ![k] = "exit"]
    /\ UNCHANGED <<sendVars, appVars, ctx, handedAtCancel, pc, conn, panicked, gCfg, gSock, gLog, tickerOn, tickBuf,
                   pingLog, gCloser, gChan, gBack, gRet>>

\* ------------------------------------ Application.monitorConnectionStatus
\* case connected := <-app.wsClient.StatusChan(): app.wsConnected = connected
MonitorStatus ==
    /\ ~panicked /\ statusChan # <<>>
    /\ wsConnected' = Head(statusChan)
    /\ statusChan' = Tail(statusChan)
    /\ UNCHANGED <<sendVars, appVars, ctx, handedAtCancel, pc, conn, panicked, gCfg, gSock, gLog, gPing, gCloser, gBack,
                   gRet>>

\* =========================================================== Notifier.Send
\* HTTP status codes a server answers with in the model
Codes == {199, 200, 299, 300, 500}

\* an error value; n is the sendRequest call that produced it (0: nil)
NilErr == [n |-> 0, kind |-> "nil", code |-> 0]

\* what Send returned: kind "none" while it runs; "nil"; "ctx" with err the
\* context's error; "exhausted" for fmt.Errorf("failed after %d attempts: %w",
\* maxRetries, lastErr)
NoRet == [kind |-> "none", err |-> "nil", attempts |-> 0, wraps |-> NilErr]

\* sendRequest accepting every status code below 400
sendRequestBelow400(n, built, sent, code) ==
    IF ~built THEN [n |-> n, kind |-> "failed to create request", code |-> 0]
    ELSE IF ~sent THEN [n |-> n, kind |-> "request failed", code |-> 0]
    ELSE IF code < 200 \/ code >= 400
      THEN [n |-> n, kind |-> "unexpected status code", code |-> code]
    ELSE [n |-> n, kind |-> "nil", code |-> code]

\* sendRequest: the error it returns for call n.  built: NewRequestWithContext
\* succeeded; sent: httpClient.Do returned a response; code: its status code.
sendRequest(n, built, sent, code) ==
    IF ~built THEN [n |-> n, kind |-> "failed to create request", code |-> 0]
    ELSE IF ~sent THEN [n |-> n, kind |-> "request failed", code |-> 0]
    ELSE IF code < 200 \/ code >= 300
      THEN [n |-> n, kind |-> "unexpected status code", code |-> code]
    ELSE [n |-> n, kind |-> "nil", code |-> code]

\* no Authorization header
NoAuth == [scheme |-> "none", user |-> "", cred |-> ""]

\* authentication that prefers the token to the password
authHeaderTokenFirst(user, pass, tok) ==
    IF tok # "" THEN [scheme |-> "Bearer", user |-> "", cred |-> tok]
    ELSE IF pass # "" THEN [scheme |-> "Basic", user |-> user, cred |-> pass]
    ELSE NoAuth

\* sendRequest: req.SetBasicAuth(n.username, n.password) if the password is
\* set, else "Authorization: Bearer <token>" if the token is set
authHeader(user, pass, tok) ==
    IF pass # "" THEN [scheme |-> "Basic", user |-> user, cred |-> pass]
    ELSE IF tok # "" THEN [scheme |-> "Bearer", user |-> "", cred |-> tok]
    ELSE NoAuth

\* a wait of retryBackoff before every retry
waitDurationFlat(a) == retryBackoff

\* Send: time.After(retryBackoff * time.Duration(attempt))
waitDuration(a) == retryBackoff * a

\* msg.Type values: the FLEX kind, a differently cased one, the empty string
MsgTypes == {"FLEX", "flex", ""}

\* msg.Signal.Function values
MsgFunctions == {"A", "B", "C"}

\* ntfy.go: defaultPriority
defaultPriority == "3"

\* getTags matching the kind without regard to case
getTagsAnyCase(msgType_) ==
    IF msgType_ \in {"FLEX", "flex"} THEN "rotating_light,emergency" ELSE "warning"

\* Notifier.getTags
getTags(msgType_) ==
    IF msgType_ = "FLEX" THEN "rotating_light,emergency" ELSE "warning"

\* lastErr = err keeping the first error instead of the latest
keepFirstErr(last, err) == IF last.kind = "nil" THEN err ELSE last

\* Send: lastErr = err
setLastErr(last, err) == err

\* A Send call with its context; the URL is valid or not for the whole call.
SendInit ==
    /\ sctx = "active"
    /\ spc = "start"
    /\ attempt = 0
    /\ reqLog = <<>>
    /\ lastErr = NilErr
    /\ sendRet = NoRet
    /\ urlOk \in BOOLEAN
    /\ username \in {"", "alice"}
    /\ password \in {"", "secret"}
    /\ token \in {"", "tk_1"}
    /\ authLog = <<>>
    /\ waitLog = <<>>
    /\ msgType \in MsgTypes
    /\ msgFunction \in MsgFunctions
    /\ hdrLog = <<>>

\* the caller cancels the context of the running Send
SendCancel ==
    /\ spc # "done" /\ sctx = "active"
    /\ sctx' = "canceled"
    /\ UNCHANGED <<clientVars, appVars, spc, attempt, reqLog, lastErr, sendRet, urlOk, gNtfy, gMsg, hdrLog, authLog, waitLog>>

\* the deadline of the context of the running Send passes
SendTimeout ==
    /\ spc # "done" /\ sctx = "active"
    /\ sctx' = "deadline"
    /\ UNCHANGED <<clientVars, appVars, spc, attempt, reqLog, lastErr, sendRet, urlOk, gNtfy, gMsg, hdrLog, authLog, waitLog>>

\* Send: formatMessage, formatTitle, priority, tags; the loop starts with
\* attempt 0, which waits for nothing.
SendStart ==
    /\ spc = "start"
    /\ attempt' = 0
    /\ lastErr' = NilErr
    /\ spc' = "request"
    /\ UNCHANGED <<clientVars, appVars, sctx, reqLog, sendRet, urlOk, gNtfy, gMsg, hdrLog, authLog, waitLog>>

\* a sendRequest call that returns an error at once: the attempt is over
\* and Send returns that error
SendRequestDoneNoRetry ==
    /\ spc = "request"
    /\ \E sent \in BOOLEAN, code \in Codes :
         /\ sent => sctx = "active"
         /\ LET err == sendRequest(Len(reqLog) + 1, urlOk, sent, code)
            IN  /\ reqLog' = Append(reqLog, err)
                /\ authLog' = IF urlOk
                                THEN Append(authLog, authHeader(username, password, token))
                                ELSE authLog
                /\ hdrLog' = IF urlOk
                               THEN Append(hdrLog, [Priority |-> defaultPriority,
                                                    Tags |-> getTags(msgType)])
                               ELSE hdrLog
                /\ IF err.kind = "nil"
                     THEN /\ sendRet' = [NoRet EXCEPT !.kind = "nil"]
                          /\ spc' = "done"
                          /\ UNCHANGED <<attempt, lastErr>>
                     ELSE /\ lastErr' = setLastErr(lastErr, err)
                          /\ attempt' = attempt + 1
                          /\ IF attempt + 1 < maxRetries /\ err.kind # "request failed"
                               THEN spc' = "wait" /\ UNCHANGED sendRet
                               ELSE /\ spc' = "done"
                                    /\ sendRet' = [kind |-> "exhausted", err |-> "nil",
                                                   attempts |-> maxRetries,
                                                   wraps |-> lastErr']
    /\ UNCHANGED <<clientVars, appVars, sctx, urlOk, gNtfy, gMsg, waitLog>>

\* Send: sendRequest returns.  A response arrives only while the context is
\* not done; otherwise httpClient.Do fails.  On nil Send returns nil; on an
\* error lastErr = err, attempt++, and the loop either goes on to the wait
\* before the next attempt or ends with "failed after 3 attempts".
SendRequestDone ==
    /\ spc = "request"
    /\ \E sent \in BOOLEAN, code \in Codes :
         /\ sent => sctx = "active"
         /\ LET err == sendRequest(Len(reqLog) + 1, urlOk, sent, code)
            IN  /\ reqLog' = Append(reqLog, err)
                /\ authLog' = IF urlOk
                                THEN Append(authLog, authHeader(username, password, token))
                                ELSE authLog
                /\ hdrLog' = IF urlOk
                               THEN Append(hdrLog, [Priority |-> defaultPriority,
                                                    Tags |-> getTags(msgType)])
                               ELSE hdrLog
                /\ IF err.kind = "nil"
                     THEN /\ sendRet' = [NoRet EXCEPT !.kind = "nil"]
                          /\ spc' = "done"
                          /\ UNCHANGED <<attempt, lastErr>>
                     ELSE /\ lastErr' = setLastErr(lastErr, err)
                          /\ attempt' = attempt + 1
                          /\ IF attempt + 1 < maxRetries
                               THEN spc' = "wait" /\ UNCHANGED sendRet
                               ELSE /\ spc' = "done"
                                    /\ sendRet' = [kind |-> "exhausted", err |-> "nil",
                                                   attempts |-> maxRetries,
                                                   wraps |-> lastErr']
    /\ UNCHANGED <<clientVars, appVars, sctx, urlOk, gNtfy, gMsg, waitLog>>

\* a plain sleep of retryBackoff * attempt that does not look at the context
SendWaitSleep ==
    /\ spc = "wait"
    /\ spc' = "request"
    /\ waitLog' = Append(waitLog, waitDuration(attempt))
    /\ UNCHANGED <<clientVars, appVars, sctx, attempt, reqLog, lastErr, sendRet, urlOk, gNtfy, gMsg, hdrLog, authLog>>

\* Send: <-time.After(retryBackoff * attempt).  The timer runs at least
\* retryBackoff, so it is the case taken only while the context is not done.
SendWaitElapsed ==
    /\ spc = "wait"
    /\ sctx = "active"
    /\ spc' = "request"
    /\ waitLog' = Append(waitLog, waitDuration(attempt))
    /\ UNCHANGED <<clientVars, appVars, sctx, attempt, reqLog, lastErr, sendRet, urlOk, gNtfy, gMsg, hdrLog, authLog>>

\* Send: <-ctx.Done() during the wait: return ctx.Err()
SendWaitCancelled ==
    /\ spc = "wait"
    /\ sctx # "active"
    /\ spc' = "done"
    /\ sendRet' = [NoRet EXCEPT !.kind = "ctx", !.err = CtxErr(sctx)]
    /\ UNCHANGED <<clientVars, appVars, sctx, attempt, reqLog, lastErr, urlOk, gNtfy, gMsg, hdrLog, authLog, waitLog>>

\* ================================== capcodes, the filter and the handler
\* A capcode is a string, written as the sequence of its characters.

\* capcodes carried by messages: the same number with and without leading
\* zeros, with a leading blank, and a letter in both cases
CapStrings == {<<"1">>, <<"0", "1">>, <<" ", "1">>, <<"a">>, <<"A">>}

\* capcode lists given to NewCapcodeFilter
CapLists == {<<>>, <<<<"1">>>>, <<<<"0", "1">>, <<"a">>>>, <<<<"a">>, <<"a">>>>}

\* msg.Capcodes of a message: every list of at most MaxCaps capcodes
CapcodeLists == UNION {[1..n -> CapStrings] : n \in 0..MaxCaps}

\* strings.TrimLeft(s, "0")
RECURSIVE TrimLeftZeros(_)
TrimLeftZeros(s) ==
    IF s # <<>> /\ Head(s) = "0" THEN TrimLeftZeros(Tail(s)) ELSE s

\* the normalized key of a capcode: leading zeros stripped, "0" if nothing
\* is left
normalize(s) == IF TrimLeftZeros(s) = <<>> THEN <<"0">> ELSE TrimLeftZeros(s)

\* NewCapcodeFilter: the keys of allowedCaps
RECURSIVE NewAllowedCaps(_)
NewAllowedCaps(capcodes) ==
    IF capcodes = <<>> THEN {}
    ELSE {Head(capcodes)} \cup NewAllowedCaps(Tail(capcodes))

\* ShouldForward comparing capcodes by their normalized form
RECURSIVE ShouldForwardNormalized(_, _, _)
ShouldForwardNormalized(fa, allowed, capcodes) ==
    IF fa THEN TRUE
    ELSE IF Len(capcodes) = 0 THEN FALSE
    ELSE IF \E a \in allowed : normalize(a) = normalize(Head(capcodes)) THEN TRUE
    ELSE ShouldForwardNormalized(fa, allowed, Tail(capcodes))

\* ShouldForward: true when forwardAll; false on an empty list; otherwise
\* the loop over capcodes returns true at the first key of allowedCaps
RECURSIVE ShouldForward(_, _, _)
ShouldForward(fa, allowed, capcodes) ==
    IF fa THEN TRUE
    ELSE IF Len(capcodes) = 0 THEN FALSE
    ELSE IF Head(capcodes) \in allowed THEN TRUE
    ELSE ShouldForward(fa, allowed, Tail(capcodes))

\* Count reporting the length of the configured list
CountOfList == Len(capList)

\* CapcodeFilter.Count: len(f.allowedCaps)
Count == Cardinality(allowedCaps)

\* ------------------------------------------------------- capcode.Lookup
\* capcodes in the CSV file and in queries: "1" with zero, one and two
\* leading zeros, "0" and "00", and "2"
LookupCaps == {<<"1">>, <<"0", "1">>, <<"0", "0", "1">>, <<"0">>, <<"0", "0">>, <<"2">>}

\* a CSV record: its first field, its number of fields, and how the agency,
\* region, station and function fields are filled: "full" (all four),
\* "partial" (agency and station) or "bare" (all empty)
CsvRows == [capcode : LookupCaps, nfields : {4, 5}, fill : {"full"}]

\* CSV files of at most MaxRows records
CsvFiles == UNION {[1..n -> CsvRows] : n \in 0..MaxRows}

\* the CapcodeInfo made from record i of the file
Info(i, row) ==
    [found |-> TRUE, row |-> i, Capcode |-> row.capcode,
     Agency |-> IF row.fill = "full" THEN "Brandweer"
                ELSE IF row.fill = "partial" THEN "Ambulance" ELSE "",
     Region |-> IF row.fill = "full" THEN "Utrecht" ELSE "",
     Station |-> IF row.fill = "full" THEN "Centrum"
                 ELSE IF row.fill = "partial" THEN "Oost" ELSE "",
     Function |-> IF row.fill = "full" THEN "Kazernealarm" ELSE ""]

\* Get finding nothing: nil
NoInfo == [found |-> FALSE, row |-> 0, Capcode |-> <<>>,
           Agency |-> "", Region |-> "", Station |-> "", Function |-> ""]

\* data[k] = v
Put(f, k, v) == [x \in DOMAIN f \cup {k} |-> IF x = k THEN v ELSE f[x]]

\* the loop of NewLookup leaving a normalized key that is already present
\* as it is
RECURSIVE LoadFromKeepFirst(_, _, _)
LoadFromKeepFirst(f, recs, i) ==
    IF i > Len(recs) THEN f
    ELSE IF recs[i].nfields < 5 THEN LoadFromKeepFirst(f, recs, i + 1)
    ELSE LET k == normalize(recs[i].capcode)
             g == IF k \in DOMAIN f THEN f ELSE Put(f, k, Info(i, recs[i]))
         IN  LoadFromKeepFirst(Put(g, recs[i].capcode, Info(i, recs[i])), recs, i + 1)

\* the loop of NewLookup ending the load at the first record with fewer
\* than 5 fields
RECURSIVE LoadFromStopAtShort(_, _, _)
LoadFromStopAtShort(f, recs, i) ==
    IF i > Len(recs) THEN f
    ELSE IF recs[i].nfields < 5 THEN f
    ELSE LoadFromStopAtShort(Put(Put(f, normalize(recs[i].capcode), Info(i, recs[i])),
                                 recs[i].capcode, Info(i, recs[i])),
                             recs, i + 1)

\* NewLookup, the loop over records from index i on: a record with fewer
\* than 5 fields is skipped; the others are stored under the normalized key
\* and then under the literal capcode.
RECURSIVE LoadFrom(_, _, _)
LoadFrom(f, recs, i) ==
    IF i > Len(recs) THEN f
    ELSE IF recs[i].nfields < 5 THEN LoadFrom(f, recs, i + 1)
    ELSE LoadFrom(Put(Put(f, normalize(recs[i].capcode), Info(i, recs[i])),
                      recs[i].capcode, Info(i, recs[i])),
                  recs, i + 1)

\* NewLookup
NewLookup(recs) == LoadFrom(<<>>, recs, 1)

\* Get trying the normalized key before the literal one
GetNormalizedFirst(f, c) ==
    IF normalize(c) \in DOMAIN f THEN f[normalize(c)]
    ELSE IF c \in DOMAIN f THEN f[c]
    ELSE NoInfo

\* Get: the exact key, then the normalized key, then nil
Get(f, c) ==
    IF c \in DOMAIN f THEN f[c]
    ELSE IF normalize(c) \in DOMAIN f THEN f[normalize(c)]
    ELSE NoInfo

\* a lookup loaded from a CSV file; no Get call yet
LookupInit ==
    /\ rows \in CsvFiles
    /\ data = NewLookup(rows)
    /\ query = <<>>
    /\ got = NoInfo
    /\ hasLookup = TRUE /\ fmsgCaps = <<>> /\ body = <<>>
    /\ infos = <<NoInfo>>

\* No lookup is used and no message is formatted.
LookupIdle ==
    /\ rows = <<>> /\ data = <<>> /\ query = <<>> /\ got = NoInfo
    /\ hasLookup = FALSE /\ fmsgCaps = <<>> /\ body = <<>>
    /\ infos = <<NoInfo>>

\* l.Get(capcode)
LookupGet ==
    /\ \E c \in LookupCaps :
         /\ query' = c
         /\ got' = Get(data, c)
    /\ UNCHANGED <<clientVars, sendVars, gFormat, gHealth, gFilter, gHandler, gMetrics, rows, data>>

LookupNext == LookupGet

\* ------------------------------- Notifier.formatMessage, Lookup.GetMultiple
\* The body is the sequence of its lines: every write of formatMessage ends
\* with "\n", so each write closes one line.
\* a line of plain text
TextLine(t) == [text |-> t, capcode |-> <<>>, details |-> <<>>]

\* the line "<capcode> - <d1>, <d2>" (or "<capcode>" when d is empty)
CapLine(c, d) == [text |-> "", capcode |-> c, details |-> d]

\* the rows a capcode file of the formatting runs is made of
FormatRows == [capcode : LookupCaps, nfields : {4, 5},
               fill : {"full", "partial", "bare"}]

FRow(c, n, f) == [capcode |-> c, nfields |-> n, fill |-> f]

\* capcode files of the formatting runs
FormatFiles ==
    {<<>>,
     <<FRow(<<"0", "1">>, 5, "full")>>,
     <<FRow(<<"0", "1">>, 5, "full"), FRow(<<"2">>, 5, "partial")>>,
     <<FRow(<<"2">>, 5, "bare"), FRow(<<"1">>, 4, "full")>>,
     <<FRow(<<"0", "1">>, 5, "partial"), FRow(<<"0", "0", "1">>, 5, "full")>>}

\* capcodes a formatted message carries
FormatCaps == {<<"0", "1">>, <<"1">>, <<"2">>, <<"9">>}

\* msg.Capcodes of a formatted message
FormatMsgs == UNION {[1..n -> FormatCaps] : n \in 0..MaxCaps}

\* n.capcodeLookup != nil and capcodeLookup.Get(c) != nil
Matched(has, f, c) == has /\ Get(f, c).found

\* the agency written first
AgencyLastCapcode(has, f, caps) ==
    IF has /\ Len(caps) > 0 /\ Get(f, caps[Len(caps)]).found
    THEN Get(f, caps[Len(caps)]).Agency
    ELSE "overig"

AgencyLabel(has, f, caps) ==
    IF has /\ Len(caps) > 0 /\ Get(f, caps[1]).found
    THEN Get(f, caps[1]).Agency
    ELSE "overig"

\* the non-empty ones of Region, Station, Function, in that order
Details(info) ==
    (IF info.Region # "" THEN <<info.Region>> ELSE <<>>)
    \o (IF info.Station # "" THEN <<info.Station>> ELSE <<>>)
    \o (IF info.Function # "" THEN <<info.Function>> ELSE <<>>)

\* the loop over msg.Capcodes, from index i on
RECURSIVE CapcodeLines(_, _, _, _)
CapcodeLines(has, f, caps, i) ==
    IF i > Len(caps) THEN <<>>
    ELSE (IF i > 1 THEN <<TextLine("")>> ELSE <<>>)
         \o (IF Matched(has, f, caps[i])
             THEN <<CapLine(caps[i], Details(Get(f, caps[i])))>>
             ELSE <<>>)
         \o CapcodeLines(has, f, caps, i + 1)

formatMessage(has, f, caps) ==
    <<TextLine(AgencyLabel(has, f, caps)), TextLine("")>>
    \o (IF Len(caps) > 0
        THEN <<TextLine("Capcode Details:")>> \o CapcodeLines(has, f, caps, 1)
        ELSE <<>>)

\* Lookup.GetMultiple, from index i on
GetMultipleKeepOne(f, caps, i) ==
    IF \E k \in 1..Len(caps) : Get(f, caps[k]).found
    THEN <<Get(f, caps[CHOOSE k \in 1..Len(caps) : Get(f, caps[k]).found])>>
    ELSE <<>>

RECURSIVE GetMultiple(_, _, _)
GetMultiple(f, caps, i) ==
    IF i > Len(caps) THEN <<>>
    ELSE (IF Get(f, caps[i]).found THEN <<Get(f, caps[i])>> ELSE <<>>)
         \o GetMultiple(f, caps, i + 1)

\* main: the lookup is nil (load failed or no path) or loaded from a file;
\* one message waits to be formatted.
FormatInit ==
    /\ hasLookup \in BOOLEAN
    /\ rows \in FormatFiles
    /\ ~hasLookup => rows = <<>>
    /\ data = NewLookup(rows)
    /\ query = <<>>
    /\ got = NoInfo
    /\ fmsgCaps \in FormatMsgs
    /\ body = <<>>
    /\ infos = <<NoInfo>>

\* message := n.formatMessage(msg)
FormatCall ==
    /\ body = <<>>
    /\ body' = formatMessage(hasLookup, data, fmsgCaps)
    /\ UNCHANGED <<clientVars, sendVars, gHealth, gLookup, gFilter, gHandler,
                   gMetrics, hasLookup, fmsgCaps, infos>>

\* lookup.GetMultiple(msg.Capcodes) on a non-nil lookup
GetMultipleCall ==
    /\ hasLookup
    /\ infos = <<NoInfo>>
    /\ infos' = GetMultiple(data, fmsgCaps, 1)
    /\ UNCHANGED <<clientVars, sendVars, gHealth, gLookup, gFilter, gHandler,
                   gMetrics, hasLookup, fmsgCaps, body>>

FormatNext == FormatCall \/ GetMultipleCall

\* main: NewCapcodeFilter(cfg.ForwardAll, cfg.Capcodes), NewMetrics; no
\* handler call runs.
AppInit ==
    /\ forwardAll \in BOOLEAN
    /\ capList \in CapLists
    /\ allowedCaps = NewAllowedCaps(capList)
    /\ hpc = "idle"
    /\ msgCaps = <<>>
    /\ fwd = "none"
    /\ sendLog = <<>>
    /\ MessagesReceived = 0 /\ MessagesFiltered = 0 /\ NotificationsSent = 0 /\ NotificationsFailed = 0
    /\ lastMsgAge = 0 /\ health = 0

\* No message is handled in the specifications of the clients.
AppIdle ==
    /\ forwardAll = TRUE /\ capList = <<>> /\ allowedCaps = {}
    /\ hpc = "idle" /\ msgCaps = <<>> /\ fwd = "none" /\ sendLog = <<>>
    /\ MessagesReceived = 0 /\ MessagesFiltered = 0 /\ NotificationsSent = 0 /\ NotificationsFailed = 0
    /\ lastMsgAge = 0 /\ health = 0

\* Application.handleMessage is called with a decoded message:
\* RecordMessageReceived, lastMsg = now.
AppReceive ==
    /\ hpc = "idle"
    /\ MessagesReceived < MaxMsgs
    /\ \E caps \in CapcodeLists : msgCaps' = caps
    /\ MessagesReceived' = MessagesReceived + 1
    /\ fwd' = "none"
    /\ hpc' = "filter"
    /\ lastMsgAge' = 0
    /\ UNCHANGED <<clientVars, sendVars, gFormat, health, gLookup, gFilter, sendLog, MessagesFiltered, NotificationsSent, NotificationsFailed>>

\* handleMessage going on to the notification whatever the filter said
AppFilterSendAll ==
    /\ hpc = "filter"
    /\ fwd' = IF ShouldForward(forwardAll, allowedCaps, msgCaps) THEN "true" ELSE "false"
    /\ hpc' = "send"
    /\ MessagesFiltered' = IF fwd' = "true" THEN MessagesFiltered + 1 ELSE MessagesFiltered
    /\ UNCHANGED <<clientVars, sendVars, gFormat, gHealth, gLookup, gFilter, msgCaps, sendLog, MessagesReceived, NotificationsSent, NotificationsFailed>>

\* handleMessage: return if !ShouldForward(msg.Capcodes); otherwise
\* RecordMessageFiltered and go on to the notification.
AppFilter ==
    /\ hpc = "filter"
    /\ fwd' = IF ShouldForward(forwardAll, allowedCaps, msgCaps) THEN "true" ELSE "false"
    /\ IF fwd' = "true"
         THEN hpc' = "send" /\ MessagesFiltered' = MessagesFiltered + 1
         ELSE hpc' = "idle" /\ UNCHANGED MessagesFiltered
    /\ UNCHANGED <<clientVars, sendVars, gFormat, gHealth, gLookup, gFilter, msgCaps, sendLog, MessagesReceived, NotificationsSent, NotificationsFailed>>

\* handleMessage: app.notifier.Send(ctx, msg) is called
AppSendCall ==
    /\ hpc = "send"
    /\ sendLog' = Append(sendLog, MessagesReceived)
    /\ hpc' = "sending"
    /\ UNCHANGED <<clientVars, sendVars, gFormat, gHealth, gLookup, gFilter, msgCaps, fwd, gMetrics>>

\* a failure path without its return: RecordNotificationFailed and then
\* RecordNotificationSent
AppSendReturnFallThrough ==
    /\ hpc = "sending"
    /\ \/ NotificationsSent' = NotificationsSent + 1 /\ UNCHANGED NotificationsFailed
       \/ /\ NotificationsFailed' = NotificationsFailed + 1
          /\ NotificationsSent' = NotificationsSent + 1
    /\ hpc' = "idle"
    /\ UNCHANGED <<clientVars, sendVars, gFormat, gHealth, gLookup, gFilter, msgCaps, fwd, sendLog, MessagesReceived, MessagesFiltered>>

\* handleMessage: Send returns nil (RecordNotificationSent) or an error
\* (RecordNotificationFailed), and handleMessage returns.
AppSendReturn ==
    /\ hpc = "sending"
    /\ \/ NotificationsSent' = NotificationsSent + 1 /\ UNCHANGED NotificationsFailed
       \/ NotificationsFailed' = NotificationsFailed + 1 /\ UNCHANGED NotificationsSent
    /\ hpc' = "idle"
    /\ UNCHANGED <<clientVars, sendVars, gFormat, gHealth, gLookup, gFilter, msgCaps, fwd, sendLog, MessagesReceived, MessagesFiltered>>

\* ------------------------------------------ Application.healthCheckHandler
\* main.go: healthCheckWindow, in minutes
healthCheckWindow == 5

\* main: a filter that forwards nothing, lastMsg: time.Now()
HealthInit ==
    /\ forwardAll = FALSE
    /\ capList = <<>>
    /\ allowedCaps = NewAllowedCaps(capList)
    /\ hpc = "idle" /\ msgCaps = <<>> /\ fwd = "none" /\ sendLog = <<>>
    /\ MessagesReceived = 0 /\ MessagesFiltered = 0
    /\ NotificationsSent = 0 /\ NotificationsFailed = 0
    /\ lastMsgAge = 0
    /\ health = 0

\* monitorConnectionStatus: connected := <-StatusChan(); app.wsConnected =
\* connected, for a value the client put on the channel
MonitorStatusRecv ==
    /\ \E connected \in BOOLEAN : wsConnected' = connected
    /\ UNCHANGED <<sendVars, appVars, ctx, handedAtCancel, pc, conn, panicked, gCfg, gSock, gLog, gPing, gCloser,
                   statusChan, gBack, gRet>>

\* a minute passes
Tick ==
    /\ lastMsgAge < MaxAge
    /\ lastMsgAge' = lastMsgAge + 1
    /\ UNCHANGED <<clientVars, sendVars, gFilter, gHandler, gMetrics, gLookup,
                   gFormat, health>>

\* the status healthCheckHandler writes
healthStatus(connected, age) ==
    IF ~connected THEN 503
    ELSE IF age > healthCheckWindow THEN 503
    ELSE 200

\* a request reaches healthCheckHandler
healthCheckHandler ==
    /\ health = 0
    /\ health' = healthStatus(wsConnected, lastMsgAge)
    /\ UNCHANGED <<clientVars, sendVars, gFilter, gHandler, gMetrics, gLookup,
                   gFormat, lastMsgAge>>

\* the response has been sent
HealthReturn ==
    /\ health # 0
    /\ health' = 0
    /\ UNCHANGED <<clientVars, sendVars, gFilter, gHandler, gMetrics, gLookup,
                   gFormat, lastMsgAge>>

HealthNext ==
    \/ AppReceive \/ AppFilter
    \/ MonitorStatusRecv \/ Tick \/ healthCheckHandler \/ HealthReturn

AppNext ==
    \/ AppReceive \/ AppFilter \/ AppSendCall \/ AppSendReturn

SendNext ==
    \/ SendStart \/ SendRequestDone \/ SendWaitElapsed \/ SendWaitCancelled
    \/ SendCancel \/ SendTimeout

\* One Send call; no feed client runs.
InitSend == ClientInit /\ hasHandler /\ SendInit /\ AppIdle /\ LookupIdle

\* One Send call and its context.
SpecSend == InitSend /\ [][SendNext]_vars

\* No Send call is running in the specifications of the feed client.
SendIdle ==
    /\ sctx = "active" /\ spc = "start" /\ attempt = 0
    /\ reqLog = <<>> /\ lastErr = NilErr /\ sendRet = NoRet
    /\ urlOk = TRUE
    /\ username = "" /\ password = "" /\ token = ""
    /\ authLog = <<>> /\ waitLog = <<>>
    /\ msgType = "" /\ msgFunction = "" /\ hdrLog = <<>>

\* A feed client; no Send call runs.
InitClient == ClientInit /\ SendIdle /\ AppIdle /\ LookupIdle

\* The handler and the filter; no feed client and no Send call runs.
InitApp == ClientInit /\ hasHandler /\ SendIdle /\ AppInit /\ LookupIdle

\* A lookup and its queries; nothing else runs.
InitLookup == ClientInit /\ hasHandler /\ SendIdle /\ AppIdle /\ LookupInit

InitHealth == ClientInit /\ hasHandler /\ SendIdle /\ HealthInit /\ LookupIdle

\* Health requests while status updates and messages arrive and time passes.
SpecHealth == InitHealth /\ [][HealthNext]_vars

InitFormat == ClientInit /\ hasHandler /\ SendIdle /\ AppIdle /\ FormatInit

\* One message formatted by a notifier with or without a lookup.
SpecFormat == InitFormat /\ [][FormatNext]_vars

\* Get calls on a lookup loaded by NewLookup.
SpecLookup == InitLookup /\ [][LookupNext]_vars

\* Messages handed to Application.handleMessage, one after the other.
SpecApp == InitApp /\ [][AppNext]_vars

\* a step of the goroutine running Connect
ConnectStep ==
    \/ ConnectLoop \/ DialFail \/ DialOk \/ Established \/ Setup
    \/ ReadSelect \/ ReadCall \/ ReadFail \/ ReadFrame \/ ExtendDeadline
    \/ handleMessage \/ HandlerReturn
    \/ ConnCloseCheck \/ ConnCloseFrame \/ ConnCloseSocket \/ ConnCloseNil
    \/ NotifyDisconnected \/ WaitElapsed \/ WaitCancelled

FullNext ==
    \/ ConnectStep
    \/ Cancel \/ Timeout
    \/ CloseCall \/ CloserCheck \/ CloserFrame \/ CloserSocket \/ CloserNil
    \/ \E k \in Socks : TickerFire(k)
    \/ \E k \in Socks : PingTick(k)
    \/ \E k \in Socks : PingWrite(k)
    \/ \E k \in Socks : PingExit(k)
    \/ MonitorStatus

ClientNext ==
    \/ ConnectStep
    \/ Cancel \/ Timeout
    \/ MonitorStatus

\* The goroutine running Connect, the context and the status consumer.
SpecClient == InitClient /\ [][ClientNext]_vars

CancelNext ==
    \/ ConnectStep
    \/ Cancel \/ Timeout

\* The goroutine running Connect and its context; the goroutine is always
\* scheduled again and every blocking call it makes (dial, read, handler)
\* returns.
SpecCancel == InitClient /\ [][CancelNext]_vars /\ WF_vars(ConnectStep)

\* The same with the keepalive goroutines and a task calling Close.
SpecFull == InitClient /\ [][FullNext]_vars

PingStep ==
    \/ \E k \in Socks : TickerFire(k)
    \/ \E k \in Socks : PingTick(k)
    \/ \E k \in Socks : PingWrite(k)
    \/ \E k \in Socks : PingExit(k)

\* Connect against a server that accepts every dial and sends no frame: the
\* read loop ends by a read failure or by cancellation
QuietConnectStep ==
    \/ ConnectLoop \/ DialOk \/ Established \/ Setup
    \/ ReadSelect \/ ReadCall \/ ReadFail
    \/ ConnCloseCheck \/ ConnCloseFrame \/ ConnCloseSocket \/ ConnCloseNil
    \/ NotifyDisconnected \/ WaitElapsed \/ WaitCancelled

PingNext ==
    \/ QuietConnectStep
    \/ Cancel
    \/ PingStep

\* The goroutine running Connect, its context, and the keepalive goroutines
\* and tickers connectAndListen starts.
SpecPing == InitClient /\ [][PingNext]_vars

StatusNext ==
    \/ QuietConnectStep
    \/ DialFail
    \/ Cancel
    \/ MonitorStatus

\* The goroutine running Connect, its context, and a status consumer that
\* is always scheduled again: a value waiting in StatusChan is received.
SpecStatus == InitClient /\ [][StatusNext]_vars /\ WF_vars(MonitorStatus)

\* a step of the task calling Client.Close
CloseStep ==
    \/ CloseCall \/ CloserCheck \/ CloserFrame \/ CloserSocket \/ CloserNil

CloseNext ==
    \/ ConnectStep
    \/ Cancel
    \/ CloseStep

\* The goroutine running Connect, its context, and a task calling Close.
SpecClose == InitClient /\ [][CloseNext]_vars

\* ======================================================== the feed client

\* positions of Connect inside connectAndListen after a successful dial
ConnectedPcs == {"setup", "readSelect", "read", "reading", "extend", "handle",
                 "inHandler", "cc1", "cc2", "cc3", "cc4"}

\* C1: Connect returns only when its context is done, and then returns the
\* context's error; a dial failure or a read failure leads to the backoff
\* wait, and the wait leads back to the top of the loop and to the next dial.
C1_ReturnsOnlyOnCancel ==
    /\ [](/\ (pc = "returned") <=> (connectRet # "none")
          /\ pc = "returned" =>
               /\ ctx # "active"
               /\ connectRet = CtxErr(ctx)
               /\ connectRet \in {"context.Canceled", "context.DeadlineExceeded"})
    /\ [][/\ (pc \in {"dial", "reading"} /\ cerr' # cerr) => pc' \in {"notifyFalse", "cc1"}
          /\ (pc = "notifyFalse" /\ pc' # pc) => pc' = "wait"
          /\ (pc = "wait" /\ pc' # pc /\ ctx = "active") => pc' = "loop"
          /\ (pc = "loop" /\ pc' # pc /\ ctx = "active") => pc' = "dial"]_vars

\* Connect has returned after a lost connection and two more failed dials.
C1_Witness ==
    /\ pc = "returned" /\ nsock >= 1 /\ failRun >= 2 /\ readLog # <<>>

\* the delay the spec gives for retry n: 1, 2, 4, 8, 16, 30, 30, ...
ExpectedDelay(n) == IF 2 ^ n < 30 THEN 2 ^ n ELSE 30

\* C2: the delay waited before the n-th retry of a run of failures that
\* starts at NewClient or at a successful dial is min(1s * 2^n, 30s).
C2_BackoffSequence ==
    pc = "wait" => backoff = ExpectedDelay(failRun)

\* the seventh wait of a run, at the cap
C2_Witness ==
    pc = "wait" /\ failRun = 6 /\ backoff = 30

\* C3: from the successful dial on, before any frame is read and for as
\* long as the connection lasts, the backoff is 1s, so the wait that follows
\* a lost connection is 1s whatever the backoff was before the dial.
C3_ResetOnConnect ==
    /\ pc \in ConnectedPcs => backoff = 1
    /\ (pc \in {"notifyFalse", "wait"} /\ cerr \in {"read", "ctx"}) => backoff = 1

\* a connection made after four failed attempts was lost: the wait is 1s
C3_Witness ==
    pc = "wait" /\ cerr = "read" /\ prevRun >= 4 /\ backoff = 1

\* ids of the decodable frames of a log, in order
DecodableIds(log) ==
    LET good == SelectSeq(log, LAMBDA f : f.ok)
    IN  [i \in 1..Len(good) |-> good[i].id]

\* the frames the read loop is done with: all but one still being handled
Processed ==
    IF pc \in {"extend", "handle"} THEN SubSeq(readLog, 1, Len(readLog) - 1)
    ELSE readLog

\* C4: with a handler registered, the handler calls are exactly the
\* decodable frames in the order they were read, one call per frame, and
\* while a handler call runs no later frame has been read.
C4_InOrderOncePerFrame ==
    /\ hasHandler => handlerLog = DecodableIds(Processed)
    /\ ~hasHandler => handlerLog = <<>>
    /\ pc = "inHandler" =>
         /\ handlerLog # <<>>
         /\ handlerLog[Len(handlerLog)] = Len(readLog)
         /\ cur = readLog[Len(readLog)]

\* three frames read, the second undecodable: the handler saw frames 1 and 3
C4_Witness ==
    /\ hasHandler /\ Len(readLog) = 3 /\ ~readLog[2].ok
    /\ handlerLog = <<1, 3>> /\ pc = "readSelect"

\* C5: the status channel never holds more than one value; a notifyStatus
\* on a full channel leaves the buffered value as it is and its caller goes
\* on; notifyStatus is never disabled by the state of the channel.
C5_NotifyNeverBlocks ==
    /\ [](Len(statusChan) <= 1)
    /\ [](pc = "established" => ENABLED Established)
    /\ [](pc = "notifyFalse" => ENABLED NotifyDisconnected)
    /\ [][(pc \in {"established", "notifyFalse"} /\ pc' # pc) =>
            /\ pc' = (IF pc = "established" THEN "setup" ELSE "wait")
            /\ statusChan' = (IF statusChan # <<>> THEN statusChan
                              ELSE <<pc = "established">>)]_vars

\* notifyStatus(false) has run and the channel still holds the earlier
\* "connected": the "disconnected" was dropped
C5_Witness ==
    pc = "wait" /\ cerr = "read" /\ statusChan = <<TRUE>>

\* C10: the step that handles an undecodable frame calls no handler, leaves
\* the socket, the status channel and the backoff alone and goes back to the
\* top of the read loop.
C10_DecodeFailureDropsFrame ==
    [][(pc = "handle" /\ ~cur.ok /\ pc' # pc) =>
         /\ pc' = "readSelect"
         /\ handlerLog' = handlerLog
         /\ conn' = conn /\ sockOpen' = sockOpen
         /\ closeFrames' = closeFrames /\ sockCloses' = sockCloses
         /\ statusChan' = statusChan
         /\ backoff' = backoff
         /\ cerr' = cerr]_vars

\* on one connection an undecodable frame was followed by a decodable one,
\* which reached the handler
C10_Witness ==
    /\ hasHandler /\ nsock = 1 /\ conn = 1 /\ 1 \in sockOpen
    /\ Len(readLog) = 2 /\ ~readLog[1].ok /\ readLog[2].ok
    /\ handlerLog = <<2>>

C11_CloseIdempotent ==
    cpc # "closeOfClosed"

\* C12: every socket is released at most once, whatever the interleaving of
\* Close with the read loop's closeConnection: at most one close frame is
\* written to it and conn.Close() is called on it at most once.
C12_ReleasedAtMostOnce ==
    \A k \in Socks : closeFrames[k] <= 1 /\ sockCloses[k] <= 1

\* C14: whenever Connect is about to dial, is dialing, waits in backoff or
\* has returned, every socket dialed so far is closed and c.conn is nil.
C14_NoSocketLeaked ==
    pc \in {"loop", "dial", "wait", "returned"} => (sockOpen = {} /\ conn = 0)

\* ========================================================== Notifier.Send

Failed(e) == e.kind # "nil"

LastReq == reqLog[Len(reqLog)]

\* Send returned fmt.Errorf("failed after 3 attempts: %w", e)
Exhausted(e) == [kind |-> "exhausted", err |-> "nil", attempts |-> 3, wraps |-> e]

\* C6 as stated: at most 3 attempts, none after a success, and Send never
\* ends on a failed attempt while fewer than 3 have been made.
C6_RetryUntilThree ==
    /\ Len(reqLog) <= 3
    /\ \A i \in 1..(Len(reqLog) - 1) : Failed(reqLog[i])
    /\ (reqLog # <<>> /\ ~Failed(LastReq)) => (spc = "done" /\ sendRet.kind = "nil")
    /\ (spc = "done" /\ Failed(LastReq)) => Len(reqLog) = 3

\* C6 amended: at most 3 attempts; Send returns nil right after the first
\* attempt that succeeds; after a failed attempt of any kind, with fewer
\* than 3 made, Send waits for the next one, and it ends short of 3 attempts
\* only by returning the context's error from a wait the context ended.
C6_RetryUnlessCancelled ==
    /\ Len(reqLog) <= 3
    /\ \A i \in 1..(Len(reqLog) - 1) : Failed(reqLog[i])
    /\ (reqLog # <<>> /\ ~Failed(LastReq)) => (spc = "done" /\ sendRet.kind = "nil")
    /\ sendRet.kind = "nil" => (reqLog # <<>> /\ ~Failed(LastReq))
    /\ (spc # "start" /\ spc # "request" /\ Failed(LastReq) /\ Len(reqLog) < 3) =>
         \/ spc = "wait"
         \/ spc = "done" /\ sctx # "active" /\ sendRet.kind = "ctx"

\* a non-2xx answer, then a transport failure, then success on the third
C6_Witness ==
    /\ spc = "done" /\ sendRet.kind = "nil" /\ Len(reqLog) = 3
    /\ reqLog[1].kind = "unexpected status code"
    /\ reqLog[2].kind = "request failed"

\* C7: when three attempts have failed, Send has returned "failed after 3
\* attempts" wrapping the error of the third; it returns that error in no
\* other case.
C7_ExhaustedWrapsLast ==
    /\ (Len(reqLog) = 3 /\ Failed(reqLog[3])) =>
         (spc = "done" /\ sendRet = Exhausted(reqLog[3]))
    /\ sendRet.kind = "exhausted" =>
         /\ Len(reqLog) = 3
         /\ \A i \in 1..3 : Failed(reqLog[i])
         /\ sendRet.wraps.n = 3

\* three failures with different errors: 500, a transport failure, 300
C7_Witness ==
    /\ spc = "done" /\ sendRet.kind = "exhausted" /\ sctx = "active"
    /\ reqLog[1].code = 500 /\ reqLog[2].kind = "request failed"
    /\ sendRet.wraps = [n |-> 3, kind |-> "unexpected status code", code |-> 300]

\* C8: a Send whose context ended before any attempt succeeded returns the
\* context's error, never "failed after 3 attempts".
C8_CancelledNeverExhausted ==
    (spc = "done" /\ sctx # "active" /\ \A i \in 1..Len(reqLog) : Failed(reqLog[i])) =>
        (sendRet.kind = "ctx" /\ sendRet.err = CtxErr(sctx))

\* C9: a wait before a retry that finds the context done ends with Send
\* returning the context's error; the timer is not the case taken and no
\* further request is made.
C9_WaitCancelReturnsAtOnce ==
    /\ [](sendRet.kind = "ctx" =>
            /\ spc = "done" /\ sctx # "active" /\ sendRet.err = CtxErr(sctx)
            /\ Len(reqLog) < 3)
    /\ []((spc = "wait" /\ sctx # "active") => ENABLED SendWaitCancelled)
    /\ [][(spc = "wait" /\ sctx # "active" /\ spc' # spc) =>
            /\ spc' = "done"
            /\ sendRet' = [NoRet EXCEPT !.kind = "ctx", !.err = CtxErr(sctx)]
            /\ reqLog' = reqLog]_vars

\* two answered attempts failed and the deadline passed during the wait
\* before the third
C9_Witness ==
    /\ spc = "done" /\ sendRet.kind = "ctx" /\ sendRet.err = "context.DeadlineExceeded"
    /\ Len(reqLog) = 2
    /\ reqLog[1].kind = "unexpected status code"
    /\ reqLog[2].kind = "unexpected status code"

\* C15: an attempt that got a response succeeds exactly when the status
\* code s has 200 <= s < 300; with any other code it fails with "unexpected
\* status code: s".
C15_SuccessIff2xx ==
    \A i \in 1..Len(reqLog) :
        LET e == reqLog[i]
        IN  /\ e.kind = "nil" <=> (200 <= e.code /\ e.code < 300)
            /\ e.kind = "unexpected status code" <=>
                   (e.code \in Codes /\ (e.code < 200 \/ e.code >= 300))
            /\ e.kind \in {"failed to create request", "request failed"} <=> e.code = 0

\* 199 and 300 were refused and 299 accepted
C15_Witness ==
    /\ Len(reqLog) = 3 /\ sendRet.kind = "nil"
    /\ reqLog[1] = [n |-> 1, kind |-> "unexpected status code", code |-> 199]
    /\ reqLog[2] = [n |-> 2, kind |-> "unexpected status code", code |-> 300]
    /\ reqLog[3] = [n |-> 3, kind |-> "nil", code |-> 299]

\* C16: every request carries one Authorization value chosen by precedence:
\* Basic with the username and password when the password is set, whether
\* or not a token is set; else Bearer with the token when it is set; else
\* none.
C16_AuthPrecedence ==
    \A i \in 1..Len(authLog) :
        LET h == authLog[i]
        IN  /\ password # "" =>
                  h = [scheme |-> "Basic", user |-> username, cred |-> password]
            /\ (password = "" /\ token # "") =>
                  h = [scheme |-> "Bearer", user |-> "", cred |-> token]
            /\ (password = "" /\ token = "") => h.scheme = "none"

\* password and token both configured: both requests made went out as Basic
C16_Witness ==
    /\ password = "secret" /\ token = "tk_1" /\ username = "alice"
    /\ Len(authLog) = 2
    /\ authLog[2] = [scheme |-> "Basic", user |-> "alice", cred |-> "secret"]

\* total of a sequence of durations
RECURSIVE SumSeq(_)
SumSeq(q) == IF q = <<>> THEN 0 ELSE Head(q) + SumSeq(Tail(q))

\* C17: no wait precedes the first attempt; the wait before the second is
\* 2s and the one before the third 4s; three failed attempts have waited 6s.
C17_WaitSchedule ==
    /\ Len(waitLog) = IF spc = "request" \/ reqLog = <<>> THEN Len(reqLog)
                      ELSE Len(reqLog) - 1
    /\ \A i \in 1..Len(waitLog) : waitLog[i] = 2 * i
    /\ (Len(reqLog) = 3 /\ \A i \in 1..3 : Failed(reqLog[i])) => SumSeq(waitLog) = 6

\* three attempts failed after waits of 2s and 4s
C17_Witness ==
    /\ sendRet.kind = "exhausted" /\ Len(reqLog) = 3 /\ waitLog = <<2, 4>>

\* ================================================ the filter, the handler

\* C18: ShouldForward(capcodes) is true exactly when forwardAll is set or
\* some element of capcodes equals, character for character, one of the
\* configured capcodes; an empty list gives forwardAll.
C18_ShouldForwardExact ==
    fwd # "none" =>
        /\ fwd = "true" <=>
               \/ forwardAll
               \/ \E i \in 1..Len(msgCaps), j \in 1..Len(capList) : msgCaps[i] = capList[j]
        /\ msgCaps = <<>> => (fwd = "true" <=> forwardAll)

\* "01" and "a" are allowed; a message with "1" and "A" is not forwarded
C18_Witness ==
    /\ ~forwardAll /\ capList = << <<"0", "1">>, <<"a">> >>
    /\ msgCaps = << <<"1">>, <<"A">> >> /\ fwd = "false"

\* C19: the handler calls Send for a message exactly when ShouldForward
\* accepted it: a rejected message ends the handler call with no Send call,
\* and an accepted one is given to Send once, before the handler returns.
C19_SendIffForwarded ==
    /\ [](Len(sendLog) = IF hpc = "send" THEN MessagesFiltered - 1 ELSE MessagesFiltered)
    /\ []((hpc = "idle" /\ fwd = "true") =>
             (sendLog # <<>> /\ sendLog[Len(sendLog)] = MessagesReceived))
    /\ [](\A i, j \in 1..Len(sendLog) : i < j => sendLog[i] < sendLog[j])
    /\ [][/\ sendLog' # sendLog =>
               (fwd = "true" /\ hpc = "send" /\ sendLog' = Append(sendLog, MessagesReceived))
          /\ (hpc = "filter" /\ fwd' = "false") => (hpc' = "idle" /\ sendLog' = sendLog)
          /\ (hpc = "filter" /\ fwd' = "true") => hpc' = "send"
          /\ (hpc = "send" /\ hpc' # hpc) => Len(sendLog') = Len(sendLog) + 1
          /\ (hpc = "sending" /\ hpc' # hpc) => sendLog' = sendLog]_vars

\* of two messages handled, the first was given to Send and the second,
\* rejected by the filter, was not
C19_Witness ==
    /\ ~forwardAll /\ MessagesReceived = 2 /\ hpc = "idle" /\ fwd = "false"
    /\ sendLog = <<1>>

\* ============================================================= the lookup

\* C20: Get(c) is the record stored under the key c if there is one, else
\* the record stored under the normalized c if there is one, else nothing;
\* so with no record under c itself, Get(c) is Get(normalized c).
C20_GetExactThenNormalized ==
    query # <<>> =>
        /\ query \in DOMAIN data => got = data[query]
        /\ (query \notin DOMAIN data /\ normalize(query) \in DOMAIN data) =>
               got = data[normalize(query)]
        /\ (query \notin DOMAIN data /\ normalize(query) \notin DOMAIN data) =>
               ~got.found
        /\ query \notin DOMAIN data => got = Get(data, normalize(query))

\* the file has "1" and not "001": Get("001") returned the record of "1"
C20_Witness ==
    /\ query = <<"0", "0", "1">> /\ query \notin DOMAIN data
    /\ got.found /\ got.Capcode = <<"1">>

\* indexes of the records NewLookup stores: those with at least 5 fields
ValidRows == {i \in 1..Len(rows) : rows[i].nfields >= 5}

\* C21: of two stored records with different capcodes and the same
\* normalized key, the one loaded later is the record under the normalized
\* key (no record loaded after it has that key), and the capcode of each of
\* the two, when it is not the normalized key itself, still leads to its own
\* record.
C21_LaterRowWinsNormalizedKey ==
    \A i, j \in ValidRows :
        (/\ i < j
         /\ rows[i].capcode # rows[j].capcode
         /\ normalize(rows[i].capcode) = normalize(rows[j].capcode)
         /\ \A k \in ValidRows : k > j => normalize(rows[k].capcode) # normalize(rows[j].capcode))
        => /\ data[normalize(rows[j].capcode)] = Info(j, rows[j])
           /\ \A r \in {i, j} :
                 (/\ rows[r].capcode # normalize(rows[r].capcode)
                  /\ \A k \in ValidRows : k > r => rows[k].capcode # rows[r].capcode)
                 => data[rows[r].capcode] = Info(r, rows[r])

\* "01" was loaded before "001": "1" leads to the record of "001", and
\* "01" to its own
C21_Witness ==
    /\ Len(rows) >= 2 /\ ValidRows = 1..Len(rows)
    /\ rows[1].capcode = <<"0", "1">> /\ rows[2].capcode = <<"0", "0", "1">>
    /\ Get(data, <<"1">>).row = 2 /\ Get(data, <<"0", "1">>).row = 1
    /\ query = <<"1">> /\ got.row = 2

\* the file without its records of fewer than 5 fields
WellFormedRows == SelectSeq(rows, LAMBDA r : r.nfields >= 5)

C23_UnmatchedShownLiteral ==
    body # <<>> =>
        \A i \in 1..Len(fmsgCaps) :
            ~Matched(hasLookup, data, fmsgCaps[i]) =>
                \E j \in 1..Len(body) : body[j] = CapLine(fmsgCaps[i], <<>>)

\* C24: the body starts with the Agency of the lookup record of the first
\* capcode, or with "overig" when the lookup is nil, the message has no
\* capcodes or the first capcode has no match; later capcodes do not change
\* the label.
C24_AgencyFromFirstCapcode ==
    body # <<>> =>
        /\ \/ ~hasLookup
           \/ fmsgCaps = <<>>
           \/ ~Get(data, fmsgCaps[1]).found
           => body[1] = TextLine("overig")
        /\ hasLookup /\ fmsgCaps # <<>> /\ Get(data, fmsgCaps[1]).found
           => body[1] = TextLine(Info(Get(data, fmsgCaps[1]).row,
                                      rows[Get(data, fmsgCaps[1]).row]).Agency)
        /\ \A other \in FormatMsgs :
              other # <<>> /\ fmsgCaps # <<>> /\ other[1] = fmsgCaps[1]
              => formatMessage(hasLookup, data, other)[1] = body[1]

C24_Witness ==
    /\ hasLookup
    /\ Len(fmsgCaps) = 2
    /\ Get(data, fmsgCaps[1]).found
    /\ Get(data, fmsgCaps[2]).found
    /\ Get(data, fmsgCaps[1]).Agency # Get(data, fmsgCaps[2]).Agency
    /\ body # <<>>
    /\ body[1] = TextLine("Ambulance")

\* positions of the input for which Get finds a record
FoundIdx == {i \in 1..Len(fmsgCaps) : Get(data, fmsgCaps[i]).found}

\* C27: GetMultiple returns one record per input element Get finds, in input
\* order, duplicates kept, unmatched elements dropped; the result is never
\* longer than the input.
C27_GetMultipleOrdered ==
    infos # <<NoInfo>> =>
        /\ Len(infos) = Cardinality(FoundIdx)
        /\ Len(infos) <= Len(fmsgCaps)
        /\ \A k \in 1..Len(infos) :
              \E i \in FoundIdx :
                  /\ Cardinality({j \in FoundIdx : j <= i}) = k
                  /\ infos[k] = Get(data, fmsgCaps[i])

C27_Witness ==
    /\ infos # <<NoInfo>>
    /\ Len(fmsgCaps) = 2
    /\ fmsgCaps[1] = fmsgCaps[2]
    /\ Len(infos) = 2
    /\ infos[1] = infos[2]
    /\ infos[1].found

ReadmePriority(function) ==
    IF function = "A" THEN "5" ELSE IF function = "B" THEN "4" ELSE "3"

\* C30: the Priority of a notification is derived from the message's function
\* code: A gives 5, B gives 4, any other function gives 3.
C30_PriorityFromFunction ==
    \A i \in 1..Len(hdrLog) : hdrLog[i].Priority = ReadmePriority(msgFunction)

\* Connect is at its first select and nothing has been attempted yet
FreshConnect ==
    /\ pc = "loop" /\ nsock = 0 /\ cerr = "nil"
    /\ statusChan = <<>> /\ backoff = initialBackoff

\* C26: when the context is already cancelled as Connect is called, Connect
\* returns context.Canceled without dialing, without a status update and
\* without changing the backoff.
C26_CancelledBeforeConnect ==
    [][(FreshConnect /\ ctx = "canceled") =>
          /\ pc' = "returned"
          /\ connectRet' = "context.Canceled"
          /\ nsock' = 0 /\ cerr' = "nil"
          /\ statusChan' = <<>>
          /\ backoff' = initialBackoff]_vars

C26_Witness ==
    /\ pc = "returned"
    /\ connectRet = "context.Canceled"
    /\ nsock = 0 /\ cerr = "nil"
    /\ statusChan = <<>>
    /\ backoff = initialBackoff

\* C28: Count() is the number of distinct strings of the configured capcode
\* list, whatever forwardAll is, and no ShouldForward call changes it.
C28_CountDistinctConfigured ==
    Count = Cardinality({capList[i] : i \in 1..Len(capList)})

C28_Witness ==
    /\ forwardAll
    /\ capList = <<<<"a">>, <<"a">>>>
    /\ Count = 1
    /\ MessagesReceived = MaxMsgs
    /\ hpc = "idle"

\* C29: the health endpoint answers 200 exactly when the WebSocket is
\* connected and a message has been received within the last 5 minutes, and
\* 503 in every other case.
C29_HealthyIffConnectedAndRecent ==
    [][(health = 0 /\ health' # 0) =>
          /\ health' \in {200, 503}
          /\ health' = 200 <=>
                /\ wsConnected
                /\ MessagesReceived > 0
                /\ lastMsgAge <= healthCheckWindow]_vars

\* ================================================ the keepalive goroutines

\* keepalive goroutines that have been started and have not returned
AliveKeepalive == {k \in Socks : pinger[k] \in {"run", "write"}}

\* C31: at most one keepalive task is alive at any time, and the one started
\* for a connection has stopped when that connection has been closed and
\* the next dial begins, cancelled context or not.
C31_OneKeepalivePerConnection ==
    /\ Cardinality(AliveKeepalive) <= 1
    /\ pc = "dial" => AliveKeepalive = {}

\* C35: a keepalive task only writes to the socket of the connection it was
\* started for: never through a handle closeConnection has set to nil (a
\* nil dereference, the only panic of these runs) and never to the socket of
\* a later connection.
C35_KeepaliveOwnSocket ==
    /\ ~panicked
    /\ \A e \in pingLog : e[1] = e[2]

\* C32: once Close has been called and has returned, the reconnect loop of
\* Connect stops: it begins no further dial, so no new socket is opened,
\* cancelled context or not.
C32_ClosedIsTerminal ==
    [][(doneClosed /\ cpc = "idle" /\ pc = "loop") => pc' # "dial"]_vars

\* C33: a successful dial is followed by a best-effort "connected" report
\* before the first read; a return of connectAndListen with an error (dial
\* failure, read failure, cancellation) is followed by a best-effort
\* "disconnected" report before the backoff wait; nothing else reports.
C33_StatusReports ==
    [][/\ (pc = "dial" /\ pc' # pc) =>
             \/ nsock' = nsock + 1 /\ pc' = "established"
             \/ nsock' = nsock /\ cerr' = "dial" /\ pc' = "notifyFalse"
       /\ (pc = "established" /\ pc' # pc) =>
             /\ statusChan' = notifyStatus(statusChan, TRUE)
             /\ pc' = "setup"
       /\ pc' = "read" => pc \in ConnectedPcs
       /\ (pc \in {"cc1", "cc4"} /\ pc' \notin {"cc1", "cc2", "cc4"}) =>
             /\ cerr \in {"read", "ctx"}
             /\ pc' = "notifyFalse"
       /\ (pc = "notifyFalse" /\ pc' # pc) =>
             /\ statusChan' = notifyStatus(statusChan, FALSE)
             /\ pc' = "wait"
       /\ pc' = "wait" => pc \in {"notifyFalse", "wait"}
       /\ Len(statusChan') > Len(statusChan) =>
             pc \in {"established", "notifyFalse"}]_vars

C33_Witness ==
    /\ pc = "wait"
    /\ nsock = 1
    /\ cerr = "read"
    /\ wsConnected
    /\ statusChan = <<FALSE>>

\* C34: when the client stays connected (blocked in ReadMessage on an open
\* connection, context not cancelled) and the consumer keeps receiving, the
\* last status the consumer received eventually is "connected" and stays so.
C34_StatusEventuallyRight ==
    <>[](pc = "reading" /\ ctx = "active") => <>[](wsConnected = TRUE)

\* C36: whenever the read loop is about to call c.conn.ReadMessage() or
\* c.conn.SetReadDeadline(), the handle c.conn is not nil, under every
\* interleaving with a Close call made from another task.
C36_ReadHandleNonNil ==
    pc \in {"read", "extend"} => conn # 0

\* C37: after the context is cancelled the read loop hands at most one more
\* frame to the message handler, then closes the connection: it begins no
\* read once it has seen the cancellation.
C37_AtMostOneFrameAfterCancel ==
    /\ [](ctx # "active" => Len(handlerLog) <= handedAtCancel + 1)
    /\ [][(ctx # "active" /\ pc' = "read") => pc = "read"]_vars

\* a frame was handed over after the cancellation, and Connect then closed
\* the connection and returned
C37_Witness ==
    /\ ctx = "canceled"
    /\ Len(handlerLog) = handedAtCancel + 1
    /\ handedAtCancel = 1
    /\ pc = "returned"
    /\ sockOpen = {}

\* the values the backoff takes, in seconds
BackoffValues == {1, 2, 4, 8, 16, 30}

\* C38: the backoff is always one of 1s, 2s, 4s, 8s, 16s, 30s; it changes
\* only on a successful dial (to 1s) and on a backoff wait that ran to its
\* end (doubled, capped at 30s); a wait interrupted by cancellation leaves
\* it as it was.
C38_BackoffValuesAndChanges ==
    /\ [](backoff \in BackoffValues)
    /\ [][backoff' # backoff =>
             \/ pc = "established" /\ backoff' = 1
             \/ /\ pc = "wait" /\ pc' = "loop" /\ ctx = "active"
                /\ backoff' = IF 2 * backoff > 30 THEN 30 ELSE 2 * backoff]_vars
    /\ [][(pc = "wait" /\ pc' = "returned") => backoff' = backoff]_vars

\* a wait at the capped backoff was interrupted by the cancellation
C38_Witness ==
    /\ pc = "returned" /\ connectRet = "context.Canceled"
    /\ cerr = "dial"
    /\ failRun = 5
    /\ backoff = 30

\* C39: for every stored row whose literal capcode is not the literal
\* capcode of a later stored row, Get of that literal capcode returns the
\* record of that row.
C39_ExactQueryOwnRecord ==
    \A i \in ValidRows :
        (\A k \in ValidRows : k > i => rows[k].capcode # rows[i].capcode)
        => Get(data, rows[i].capcode) = Info(i, rows[i])

\* C40: notifications_sent + notifications_failed <= messages_filtered <=
\* messages_received in every state, with equality on the left whenever no
\* handler call is in progress.
C40_MetricsAccounting ==
    /\ NotificationsSent + NotificationsFailed <= MessagesFiltered
    /\ MessagesFiltered <= MessagesReceived
    /\ hpc = "idle" => NotificationsSent + NotificationsFailed = MessagesFiltered

\* two accepted messages, one sent and one failed
C40_Witness ==
    /\ hpc = "idle"
    /\ MessagesReceived = 2 /\ MessagesFiltered = 2
    /\ NotificationsSent = 1 /\ NotificationsFailed = 1
====
